---- MODULE Spec2Model ----
(***************************************************************************)
(* AudioStreamer (src/evi-python-raw-api/src/audio_streamer.py).           *)
(*                                                                         *)
(* Threads: the caller of start()/stop(), producers calling                *)
(* add_audio_chunk(), the decode worker threads created by start(), and    *)
(* the audio device thread invoking audio_callback of every started        *)
(* OutputStream.                                                           *)
(*                                                                         *)
(* A sample is represented by its numerator over 32768: the float          *)
(* n / 32768.0 is the integer n.  Decoded audio is single channel.         *)
(***************************************************************************)
EXTENDS Integers, Sequences, FiniteSets, TLC

VARIABLES
    audio_queue,        \* queue.Queue(): sequence of ids of submitted objects
    audio_thread,       \* 0 (None) or the id of the last Thread created
    playing,            \* self.playing
    audio_stream,       \* 0 (None) or the id of the last OutputStream created
    audio_data_buffer,  \* list of samples
    buffer_lock,        \* 0 free, w > 0 held by worker w, -s held by the callback of stream s
    workers,            \* the Thread objects: position and locals of each worker
    streams,            \* the OutputStream objects
    callerPc,           \* position of the thread calling start()/stop()
    tempfiles,          \* number of temporary files that exist on disk
    submitted,          \* history: every object given to add_audio_chunk
    fate,               \* history: what became of each submitted object
    drained,            \* history: the samples the callbacks took out of the buffer
    outdata,            \* the output block written by the last callback
    calls,              \* history: number of start()/stop() calls begun
    lastCall,           \* history: the last start()/stop() call begun
    seenByStart,        \* history: the objects submitted with playing False that were
                        \* queued when start() was called, with no stop() since
    restarted,          \* history: the queued objects submitted with playing False
                        \* for which a start() has set playing to True since
    appended,           \* history: the samples appended to the buffer
    starterPc           \* position of each further thread calling start()

vars ==
    <<audio_queue, audio_thread, playing, audio_stream, audio_data_buffer,
      buffer_lock, workers, streams, callerPc, tempfiles, submitted, fate,
      drained, outdata, calls, lastCall, seenByStart, restarted,
      appended, starterPc>>

\* ------------------------------------------------------------------ bounds
MaxChunks == 2
MaxCalls == 3
BlockSize == 2
NumStarters == 2

\* The further threads calling start().
Starters ==
    1..NumStarters

\* ------------------------------------------------------------------ values
\* What a caller can hand to add_audio_chunk.
Bytes(h, d) ==
    [kind |-> "bytes", hdr |-> h, data |-> d]

\* The None sentinel of line 82.
NoneValue ==
    [kind |-> "none", hdr |-> FALSE, data |-> <<>>]

\* An object that is not bytes-like (a str): tempfile.write and np.frombuffer
\* both raise TypeError on it.
StrValue ==
    [kind |-> "str", hdr |-> FALSE, data |-> <<>>]

\* Byte strings: hdr says whether the bytes start with a container header
\* soundfile recognises; data is the payload (the whole string when there is
\* no header).
ByteChunks ==
    { Bytes(TRUE, <<0, 64, 0, 192>>),     \* WAV, samples 0.5, -0.5
      Bytes(FALSE, <<0, 128>>),           \* raw PCM, 1 sample (-1.0)
      Bytes(FALSE, <<7, 0, 9>>) }         \* odd length, no header

Chunks ==
    ByteChunks \cup {StrValue}

Values ==
    Chunks \cup {NoneValue}

\* Int16From reading each byte pair high byte first.
RECURSIVE Int16From_bigEndian(_, _)
Int16From_bigEndian(b, i) ==
    IF i + 1 > Len(b)
    THEN <<>>
    ELSE LET u == 256 * b[i] + b[i + 1]
         IN  <<IF u >= 32768 THEN u - 65536 ELSE u>> \o Int16From_bigEndian(b, i + 2)

\* ------------------------------------------------------------------ decoding
\* np.frombuffer(b, dtype=np.int16) on a little-endian machine, from byte
\* position i on: one signed 16-bit integer per byte pair.
RECURSIVE Int16From(_, _)
Int16From(b, i) ==
    IF i + 1 > Len(b)
    THEN <<>>
    ELSE LET u == b[i] + 256 * b[i + 1]
         IN  <<IF u >= 32768 THEN u - 65536 ELSE u>> \o Int16From(b, i + 2)

\* soundfile.read of the temporary file: fails unless the bytes carry a
\* container header; a 16-bit mono payload yields one sample per whole frame.
SoundfileRead(v) ==
    IF v.kind = "bytes" /\ v.hdr
    THEN [ok |-> TRUE, samples |-> Int16From(v.data, 1)]
    ELSE [ok |-> FALSE, samples |-> <<>>]

\* RawPCM with the trailing odd byte cut off instead of an error.
RawPCM_truncating(v) ==
    IF v.kind = "bytes"
    THEN [ok |-> TRUE, samples |-> Int16From(v.data, 1)]
    ELSE [ok |-> FALSE, samples |-> <<>>]

\* np.frombuffer(audio_data, dtype=np.int16).astype(np.float32) / 32768.0:
\* raises on a non-bytes object and on a length that is no multiple of 2.
RawPCM(v) ==
    IF v.kind = "bytes" /\ Len(v.data) % 2 = 0
    THEN [ok |-> TRUE, samples |-> Int16From(v.data, 1)]
    ELSE [ok |-> FALSE, samples |-> <<>>]

\* ------------------------------------------------------------------ callback
Zeros(n) ==
    [i \in 1..n |-> 0]

\* CallbackResult with the slice that stays in the buffer starting one early.
CallbackResult_sliceEarly(buf, frames) ==
    IF Len(buf) >= frames
    THEN [out |-> SubSeq(buf, 1, frames),
          rest |-> SubSeq(buf, frames, Len(buf)),
          n |-> frames]
    ELSE IF Len(buf) > 0
    THEN [out |-> buf \o Zeros(frames - Len(buf)),
          rest |-> <<>>,
          n |-> Len(buf)]
    ELSE [out |-> Zeros(frames), rest |-> buf, n |-> 0]

\* CallbackResult without the reset of the buffer in the short case.
CallbackResult_keepShort(buf, frames) ==
    IF Len(buf) >= frames
    THEN [out |-> SubSeq(buf, 1, frames),
          rest |-> SubSeq(buf, frames + 1, Len(buf)),
          n |-> frames]
    ELSE IF Len(buf) > 0
    THEN [out |-> buf \o Zeros(frames - Len(buf)),
          rest |-> buf,
          n |-> Len(buf)]
    ELSE [out |-> Zeros(frames), rest |-> buf, n |-> 0]

\* CallbackResult losing the sample behind the block it returns.
CallbackResult_skipOne(buf, frames) ==
    IF Len(buf) >= frames
    THEN [out |-> SubSeq(buf, 1, frames),
          rest |-> SubSeq(buf, frames + 2, Len(buf)),
          n |-> frames]
    ELSE IF Len(buf) > 0
    THEN [out |-> buf \o Zeros(frames - Len(buf)),
          rest |-> <<>>,
          n |-> Len(buf)]
    ELSE [out |-> Zeros(frames), rest |-> buf, n |-> 0]

\* The body of audio_callback under the lock: the block written to outdata,
\* what is left in the buffer, and how many samples were taken from it.
CallbackResult(buf, frames) ==
    IF Len(buf) >= frames
    THEN [out |-> SubSeq(buf, 1, frames),
          rest |-> SubSeq(buf, frames + 1, Len(buf)),
          n |-> frames]
    ELSE IF Len(buf) > 0
    THEN [out |-> buf \o Zeros(frames - Len(buf)),
          rest |-> <<>>,
          n |-> Len(buf)]
    ELSE [out |-> Zeros(frames), rest |-> buf, n |-> 0]

\* ------------------------------------------------------------------ state
NewWorker ==
    [pc |-> "loop", cur |-> 0, samples |-> <<>>]

NewStream ==
    [active |-> TRUE, stops |-> 0, closes |-> 0]

IsAlive(w) ==
    workers[w].pc # "dead"

Init ==
    /\ audio_queue = <<>>
    /\ audio_thread = 0
    /\ playing = FALSE
    /\ audio_stream = 0
    /\ audio_data_buffer = <<>>
    /\ buffer_lock = 0
    /\ workers = <<>>
    /\ streams = <<>>
    /\ callerPc = "idle"
    /\ tempfiles = 0
    /\ submitted = <<>>
    /\ fate = <<>>
    /\ drained = <<>>
    /\ outdata = <<>>
    /\ calls = 0
    /\ lastCall = "none"
    /\ seenByStart = {}
    /\ restarted = {}
    /\ appended = <<>>
    /\ starterPc = [c \in Starters |-> "idle"]

\* ------------------------------------------------------------------ callers
\* add_audio_chunk(v): put(block=False) on an unbounded queue never raises Full.
add_audio_chunk(v) ==
    /\ Len(submitted) < MaxChunks
    /\ submitted' = Append(submitted, [val |-> v, running |-> playing])
    /\ fate' = Append(fate, "queued")
    /\ audio_queue' = Append(audio_queue, Len(submitted) + 1)
    /\ UNCHANGED <<audio_thread, playing, audio_stream, audio_data_buffer,
                   buffer_lock, workers, streams, callerPc, tempfiles,
                   drained, outdata, calls, lastCall, seenByStart,
                   restarted, appended, starterPc>>

\* start() beginning every run with a fresh queue and an empty buffer.
start_fresh ==
    /\ callerPc = "idle"
    /\ calls < MaxCalls
    /\ calls' = calls + 1
    /\ lastCall' = "start"
    /\ seenByStart' = seenByStart \cup
           {i \in DOMAIN fate : fate[i] = "queued" /\ ~submitted[i].running}
    /\ IF audio_thread = 0 \/ ~IsAlive(audio_thread)
       THEN /\ playing' = TRUE
            /\ workers' = Append(workers, NewWorker)
            /\ audio_thread' = Len(workers) + 1
            /\ streams' = Append(streams, NewStream)
            /\ audio_stream' = Len(streams) + 1
            /\ restarted' = restarted \cup
                   {i \in DOMAIN fate : fate[i] = "queued" /\ ~submitted[i].running}
            /\ audio_queue' = <<>>
            /\ audio_data_buffer' = <<>>
       ELSE UNCHANGED <<playing, workers, audio_thread, streams, audio_stream,
                        restarted, audio_queue, audio_data_buffer>>
    /\ UNCHANGED <<buffer_lock, callerPc,
                   tempfiles, submitted, fate, drained, outdata, 
                   appended, starterPc>>

\* start(), with _start_streaming_output().
start ==
    /\ callerPc = "idle"
    /\ calls < MaxCalls
    /\ calls' = calls + 1
    /\ lastCall' = "start"
    /\ seenByStart' = seenByStart \cup
           {i \in DOMAIN fate : fate[i] = "queued" /\ ~submitted[i].running}
    /\ IF audio_thread = 0 \/ ~IsAlive(audio_thread)
       THEN /\ playing' = TRUE
            /\ workers' = Append(workers, NewWorker)
            /\ audio_thread' = Len(workers) + 1
            /\ streams' = Append(streams, NewStream)
            /\ audio_stream' = Len(streams) + 1
            /\ restarted' = restarted \cup
                   {i \in DOMAIN fate : fate[i] = "queued" /\ ~submitted[i].running}
       ELSE UNCHANGED <<playing, workers, audio_thread, streams, audio_stream,
                        restarted>>
    /\ UNCHANGED <<audio_queue, audio_data_buffer, buffer_lock, callerPc,
                   tempfiles, submitted, fate, drained, outdata, 
                   appended, starterPc>>

\* stop(), line 36.
stop_flag ==
    /\ callerPc = "idle"
    /\ calls < MaxCalls
    /\ calls' = calls + 1
    /\ lastCall' = "stop"
    /\ seenByStart' = {}
    /\ playing' = FALSE
    /\ callerPc' = "stop_stream"
    /\ UNCHANGED <<audio_queue, audio_thread, audio_stream, audio_data_buffer,
                   buffer_lock, workers, streams, tempfiles, submitted, fate,
                   drained, outdata, restarted, appended, starterPc>>

\* stop_stream going on to the join without stopping and closing the stream.
stop_stream_leaveOpen ==
    /\ callerPc = "stop_stream"
    /\ callerPc' = IF audio_thread # 0 /\ IsAlive(audio_thread) THEN "join" ELSE "idle"
    /\ UNCHANGED <<audio_queue, audio_thread, playing, audio_stream,
                   audio_data_buffer, buffer_lock, workers, tempfiles,
                   submitted, fate, drained, outdata, calls, lastCall, seenByStart,
                   restarted, appended, starterPc, streams>>

\* stop(), lines 37-40.  OutputStream.stop() returns once the callback in
\* progress has returned; stop() and close() ignore errors, so they can be
\* issued again on a closed stream.
stop_stream ==
    /\ callerPc = "stop_stream"
    /\ IF audio_stream # 0
       THEN /\ buffer_lock # -audio_stream
            /\ streams' = [streams EXCEPT ![audio_stream] =
                   [active |-> FALSE, stops |-> @.stops + 1, closes |-> @.closes + 1]]
       ELSE UNCHANGED streams
    /\ callerPc' = IF audio_thread # 0 /\ IsAlive(audio_thread) THEN "join" ELSE "idle"
    /\ UNCHANGED <<audio_queue, audio_thread, playing, audio_stream,
                   audio_data_buffer, buffer_lock, workers, tempfiles,
                   submitted, fate, drained, outdata, calls, lastCall, seenByStart,
                   restarted, appended, starterPc>>

\* A worker that is past queue.get() and has not finished its chunk.
Busy(w) ==
    workers[w].pc \in {"decode", "read", "fallback", "append", "extend"}

\* stop(), line 41: join(timeout=1.0) returns when the worker has exited, or
\* when the second has passed.  A worker polling the queue (timeout 0.1) sees
\* the flag well within the second; only one in the middle of a chunk can
\* outlast the wait.
stop_join ==
    /\ callerPc = "join"
    /\ ~IsAlive(audio_thread) \/ Busy(audio_thread)
    /\ callerPc' = "idle"
    /\ UNCHANGED <<audio_queue, audio_thread, playing, audio_stream,
                   audio_data_buffer, buffer_lock, workers, streams, tempfiles,
                   submitted, fate, drained, outdata, calls, lastCall, seenByStart,
                   restarted, appended, starterPc>>

\* ------------------------------------------------------------------ worker
WorkerIds ==
    1..MaxCalls

SetWorker(w, r) ==
    workers' = [workers EXCEPT ![w] = r]

\* worker_loop going on to queue.get() whatever the flag says.
worker_loop_ignoreFlag(w) ==
    /\ w \in DOMAIN workers
    /\ workers[w].pc = "loop"
    /\ SetWorker(w, [workers[w] EXCEPT !.pc = "get"])
    /\ UNCHANGED <<audio_queue, audio_thread, playing, audio_stream,
                   audio_data_buffer, buffer_lock, streams, callerPc, tempfiles,
                   submitted, fate, drained, outdata, calls, lastCall, seenByStart,
                   restarted, appended, starterPc>>

\* Line 78: while self.playing.
worker_loop(w) ==
    /\ w \in DOMAIN workers
    /\ workers[w].pc = "loop"
    /\ SetWorker(w, [workers[w] EXCEPT !.pc = IF playing THEN "get" ELSE "dead"])
    /\ UNCHANGED <<audio_queue, audio_thread, playing, audio_stream,
                   audio_data_buffer, buffer_lock, streams, callerPc, tempfiles,
                   submitted, fate, drained, outdata, calls, lastCall, seenByStart,
                   restarted, appended, starterPc>>

\* worker_get with a queue.get() that has no timeout: it waits for an object.
worker_get_blocking(w) ==
    /\ w \in DOMAIN workers
    /\ workers[w].pc = "get"
    /\ audio_queue # <<>>
    /\ LET i == Head(audio_queue)
       IN  /\ audio_queue' = Tail(audio_queue)
           /\ restarted' = restarted \ {i}
           /\ IF submitted[i].val.kind = "none"
              THEN /\ SetWorker(w, [workers[w] EXCEPT !.pc = "dead"])
                   /\ fate' = [fate EXCEPT ![i] = "sentinel"]
              ELSE /\ SetWorker(w, [workers[w] EXCEPT !.pc = "decode", !.cur = i])
                   /\ fate' = [fate EXCEPT ![i] = "taken"]
    /\ UNCHANGED <<audio_thread, playing, audio_stream, audio_data_buffer,
                   buffer_lock, streams, callerPc, tempfiles, submitted,
                   drained, outdata, calls, lastCall, seenByStart,
                   appended, starterPc>>

\* Lines 81-83 and 115-116: queue.get(timeout=0.1).
worker_get(w) ==
    /\ w \in DOMAIN workers
    /\ workers[w].pc = "get"
    /\ IF audio_queue = <<>>
       THEN /\ SetWorker(w, [workers[w] EXCEPT !.pc = "loop"])
            /\ UNCHANGED <<audio_queue, fate, restarted>>
       ELSE LET i == Head(audio_queue)
            IN  /\ audio_queue' = Tail(audio_queue)
                /\ restarted' = restarted \ {i}
                /\ IF submitted[i].val.kind = "none"
                   THEN /\ SetWorker(w, [workers[w] EXCEPT !.pc = "dead"])
                        /\ fate' = [fate EXCEPT ![i] = "sentinel"]
                   ELSE /\ SetWorker(w, [workers[w] EXCEPT !.pc = "decode", !.cur = i])
                        /\ fate' = [fate EXCEPT ![i] = "taken"]
    /\ UNCHANGED <<audio_thread, playing, audio_stream, audio_data_buffer,
                   buffer_lock, streams, callerPc, tempfiles, submitted,
                   drained, outdata, calls, lastCall, seenByStart,
                   appended, starterPc>>

\* Lines 89-91: NamedTemporaryFile(delete=False), write, flush.  write raises
\* TypeError on an object that is not bytes-like; the file stays.
worker_tempfile(w) ==
    /\ w \in DOMAIN workers
    /\ workers[w].pc = "decode"
    /\ tempfiles' = tempfiles + 1
    /\ SetWorker(w, [workers[w] EXCEPT !.pc =
           IF submitted[workers[w].cur].val.kind = "bytes" THEN "read" ELSE "fallback"])
    /\ UNCHANGED <<audio_queue, audio_thread, playing, audio_stream,
                   audio_data_buffer, buffer_lock, streams, callerPc,
                   submitted, fate, drained, outdata, calls, lastCall, seenByStart,
                   restarted, appended, starterPc>>

\* Lines 94-97: soundfile.read, then os.unlink when it returned.
worker_read(w) ==
    /\ w \in DOMAIN workers
    /\ workers[w].pc = "read"
    /\ LET r == SoundfileRead(submitted[workers[w].cur].val)
       IN  IF r.ok
           THEN /\ tempfiles' = tempfiles - 1
                /\ SetWorker(w, [workers[w] EXCEPT !.pc = "append", !.samples = r.samples])
                /\ fate' = [fate EXCEPT ![workers[w].cur] = "wav"]
           ELSE /\ SetWorker(w, [workers[w] EXCEPT !.pc = "fallback"])
                /\ UNCHANGED <<tempfiles, fate>>
    /\ UNCHANGED <<audio_queue, audio_thread, playing, audio_stream,
                   audio_data_buffer, buffer_lock, streams, callerPc,
                   submitted, drained, outdata, calls, lastCall, seenByStart,
                   restarted, appended, starterPc>>

\* worker_fallback without the inner try: the error of the fallback ends the
\* thread.
worker_fallback_uncaught(w) ==
    /\ w \in DOMAIN workers
    /\ workers[w].pc = "fallback"
    /\ LET r == RawPCM(submitted[workers[w].cur].val)
       IN  IF r.ok
           THEN /\ SetWorker(w, [workers[w] EXCEPT !.pc = "append", !.samples = r.samples])
                /\ fate' = [fate EXCEPT ![workers[w].cur] = "pcm"]
           ELSE /\ SetWorker(w, [pc |-> "dead", cur |-> 0, samples |-> <<>>])
                /\ fate' = [fate EXCEPT ![workers[w].cur] = "dropped"]
    /\ UNCHANGED <<audio_queue, audio_thread, playing, audio_stream,
                   audio_data_buffer, buffer_lock, streams, callerPc, tempfiles,
                   submitted, drained, outdata, calls, lastCall, seenByStart,
                   restarted, appended, starterPc>>

\* Lines 104-108 and 112-113: the raw PCM fallback.
worker_fallback(w) ==
    /\ w \in DOMAIN workers
    /\ workers[w].pc = "fallback"
    /\ LET r == RawPCM(submitted[workers[w].cur].val)
       IN  IF r.ok
           THEN /\ SetWorker(w, [workers[w] EXCEPT !.pc = "append", !.samples = r.samples])
                /\ fate' = [fate EXCEPT ![workers[w].cur] = "pcm"]
           ELSE /\ SetWorker(w, NewWorker)
                /\ fate' = [fate EXCEPT ![workers[w].cur] = "dropped"]
    /\ UNCHANGED <<audio_queue, audio_thread, playing, audio_stream,
                   audio_data_buffer, buffer_lock, streams, callerPc, tempfiles,
                   submitted, drained, outdata, calls, lastCall, seenByStart,
                   restarted, appended, starterPc>>

\* worker_lock entering the with block without taking the lock.
worker_lock_skip(w) ==
    /\ w \in DOMAIN workers
    /\ workers[w].pc = "append"
    /\ SetWorker(w, [workers[w] EXCEPT !.pc = "extend"])
    /\ UNCHANGED <<audio_queue, audio_thread, playing, audio_stream,
                   audio_data_buffer, streams, callerPc, tempfiles, submitted,
                   fate, drained, outdata, calls, lastCall, seenByStart,
                   restarted, appended, starterPc, buffer_lock>>

\* Lines 100 and 109: with self.buffer_lock (acquire).
worker_lock(w) ==
    /\ w \in DOMAIN workers
    /\ workers[w].pc = "append"
    /\ buffer_lock = 0
    /\ buffer_lock' = w
    /\ SetWorker(w, [workers[w] EXCEPT !.pc = "extend"])
    /\ UNCHANGED <<audio_queue, audio_thread, playing, audio_stream,
                   audio_data_buffer, streams, callerPc, tempfiles, submitted,
                   fate, drained, outdata, calls, lastCall, seenByStart,
                   restarted, appended, starterPc>>

\* Extend putting the new samples in front.
Extend_prepend(buf, samples) ==
    samples \o buf

\* list.extend of lines 101 and 110.
Extend(buf, samples) ==
    buf \o samples

\* worker_extend leaving the with block without releasing the lock.
worker_extend_keepLock(w) ==
    /\ w \in DOMAIN workers
    /\ workers[w].pc = "extend"
    /\ audio_data_buffer' = Extend(audio_data_buffer, workers[w].samples)
    /\ appended' = appended \o workers[w].samples
    /\ SetWorker(w, NewWorker)
    /\ UNCHANGED <<audio_queue, audio_thread, playing, audio_stream, streams,
                   callerPc, tempfiles, submitted, fate, drained, outdata,
                   calls, lastCall, seenByStart, restarted, starterPc,
                   buffer_lock>>

\* Lines 101 and 110: extend the buffer, release the lock, next iteration.
worker_extend(w) ==
    /\ w \in DOMAIN workers
    /\ workers[w].pc = "extend"
    /\ audio_data_buffer' = Extend(audio_data_buffer, workers[w].samples)
    /\ appended' = appended \o workers[w].samples
    /\ buffer_lock' = 0
    /\ SetWorker(w, NewWorker)
    /\ UNCHANGED <<audio_queue, audio_thread, playing, audio_stream, streams,
                   callerPc, tempfiles, submitted, fate, drained, outdata,
                   calls, lastCall, seenByStart, restarted, starterPc>>

\* ------------------------------------------------------------------ device
StreamIds ==
    1..MaxCalls

\* Line 50: the device thread of a started stream enters audio_callback and
\* takes the lock.
callback_lock(s) ==
    /\ s \in DOMAIN streams
    /\ streams[s].active
    /\ buffer_lock = 0
    /\ buffer_lock' = -s
    /\ UNCHANGED <<audio_queue, audio_thread, playing, audio_stream,
                   audio_data_buffer, workers, streams, callerPc, tempfiles,
                   submitted, fate, drained, outdata, calls, lastCall, seenByStart,
                   restarted, appended, starterPc>>

\* Lines 51-64: the body of audio_callback, then the release of the lock.
callback_body(s) ==
    /\ buffer_lock = -s
    /\ LET r == CallbackResult(audio_data_buffer, BlockSize)
       IN  /\ outdata' = r.out
           /\ audio_data_buffer' = r.rest
           /\ drained' = drained \o SubSeq(r.out, 1, r.n)
    /\ buffer_lock' = 0
    /\ UNCHANGED <<audio_queue, audio_thread, playing, audio_stream, workers,
                   streams, callerPc, tempfiles, submitted, fate, calls, lastCall, seenByStart,
                   restarted, appended, starterPc>>

\* ------------------------------------------------------------------ specification
Worker(w) ==
    \/ worker_loop(w)
    \/ worker_get(w)
    \/ worker_tempfile(w)
    \/ worker_read(w)
    \/ worker_fallback(w)
    \/ worker_lock(w)
    \/ worker_extend(w)

Callback(s) ==
    \/ callback_lock(s)
    \/ callback_body(s)

Next ==
    \/ \E v \in Values : add_audio_chunk(v)
    \/ start
    \/ stop_flag
    \/ stop_stream
    \/ stop_join
    \/ \E w \in WorkerIds : Worker(w)
    \/ \E s \in StreamIds : Callback(s)

Spec ==
    Init /\ [][Next]_vars

\* Scheduling: a worker thread that can take a step takes one (the lock is
\* held for one extend or one callback body, so a worker waiting for it gets
\* it), and the device keeps invoking the callback of a started stream.
\* Without the None sentinel at most one worker is alive and at most one
\* stream is started (OneWorkerOneStream), so fairness to the worker and to
\* the callback is fairness to each thread.
Fairness ==
    /\ SF_vars(\E w \in WorkerIds : Worker(w))
    /\ SF_vars(\E s \in StreamIds : Callback(s))

OneWorkerOneStream ==
    /\ Cardinality({w \in DOMAIN workers : IsAlive(w)}) <= 1
    /\ Cardinality({s \in DOMAIN streams : streams[s].active}) <= 1

\* Audio chunks only (no None sentinel), start() and no stop().
NextRun ==
    \/ \E v \in Chunks : add_audio_chunk(v)
    \/ start
    \/ \E w \in WorkerIds : Worker(w)
    \/ \E s \in StreamIds : Callback(s)

RunSpec ==
    Init /\ [][NextRun]_vars /\ Fairness

\* Audio chunks only (no None sentinel), start() and stop().  A stop() in
\* progress goes on: OutputStream.stop() waits for the callback that is
\* running, and the device starts no further callback on that stream once
\* stop() was called, so stop_stream is taken although callbacks keep taking
\* and releasing the lock (strong fairness); the join is bounded by its
\* timeout.
NextLifecycle ==
    \/ \E v \in Chunks : add_audio_chunk(v)
    \/ start
    \/ stop_flag
    \/ stop_stream
    \/ stop_join
    \/ \E w \in WorkerIds : Worker(w)
    \/ \E s \in StreamIds : Callback(s)

LifecycleSpec ==
    Init /\ [][NextLifecycle]_vars /\ Fairness /\ SF_vars(stop_stream) /\ WF_vars(stop_join)

\* The shutdown path on its own: start(), stop() and submissions of the raw
\* PCM chunk, the chunk that takes a worker through every step of its loop
\* (temporary file, failed container decode, fallback, append); scheduling
\* as in LifecycleSpec.
PcmChunks ==
    {Bytes(FALSE, <<0, 128>>)}

NextShutdown ==
    \/ \E v \in PcmChunks : add_audio_chunk(v)
    \/ start
    \/ stop_flag
    \/ stop_stream
    \/ stop_join
    \/ \E w \in WorkerIds : Worker(w)
    \/ \E s \in StreamIds : Callback(s)

ShutdownSpec ==
    Init /\ [][NextShutdown]_vars /\ Fairness /\ SF_vars(stop_stream) /\ WF_vars(stop_join)

\* ------------------------------------------------------------------ racing start()
\* start() called from further threads, step by step: nothing in start()
\* makes the test of line 28 and the assignments of lines 29-32 one step.
\* Line 28: the test of the worker thread.
start_check(c) ==
    /\ starterPc[c] = "idle"
    /\ calls < MaxCalls
    /\ calls' = calls + 1
    /\ lastCall' = "start"
    /\ seenByStart' = seenByStart \cup
           {i \in DOMAIN fate : fate[i] = "queued" /\ ~submitted[i].running}
    /\ starterPc' = [starterPc EXCEPT ![c] =
           IF audio_thread = 0 \/ ~IsAlive(audio_thread) THEN "launch" ELSE "idle"]
    /\ UNCHANGED <<audio_queue, audio_thread, playing, audio_stream,
                   audio_data_buffer, buffer_lock, workers, streams, callerPc,
                   tempfiles, submitted, fate, drained, outdata, restarted,
                   appended>>

\* Lines 29-31: set the flag, create the worker thread and start it.
start_launch(c) ==
    /\ starterPc[c] = "launch"
    /\ playing' = TRUE
    /\ workers' = Append(workers, NewWorker)
    /\ audio_thread' = Len(workers) + 1
    /\ restarted' = restarted \cup
           {i \in DOMAIN fate : fate[i] = "queued" /\ ~submitted[i].running}
    /\ starterPc' = [starterPc EXCEPT ![c] = "open"]
    /\ UNCHANGED <<audio_queue, audio_stream, audio_data_buffer, buffer_lock,
                   streams, callerPc, tempfiles, submitted, fate, drained,
                   outdata, calls, lastCall, seenByStart, appended>>

\* Line 32 (lines 66-73): open and start the output stream; start() returns.
start_open(c) ==
    /\ starterPc[c] = "open"
    /\ streams' = Append(streams, NewStream)
    /\ audio_stream' = Len(streams) + 1
    /\ starterPc' = [starterPc EXCEPT ![c] = "idle"]
    /\ UNCHANGED <<audio_queue, audio_thread, playing, audio_data_buffer,
                   buffer_lock, workers, callerPc, tempfiles, submitted, fate,
                   drained, outdata, calls, lastCall, seenByStart, restarted,
                   appended>>

Starter(c) ==
    \/ start_check(c)
    \/ start_launch(c)
    \/ start_open(c)

\* Submissions of the raw PCM chunk, stop() from the first caller thread,
\* start() from the further threads.
NextRace ==
    \/ \E v \in PcmChunks : add_audio_chunk(v)
    \/ \E c \in Starters : Starter(c)
    \/ stop_flag
    \/ stop_stream
    \/ stop_join
    \/ \E w \in WorkerIds : Worker(w)
    \/ \E s \in StreamIds : Callback(s)

RaceSpec ==
    Init /\ [][NextRace]_vars

\* ------------------------------------------------------------------ properties
\* A step in which a callback ran its body and returned.
CallbackStep ==
    buffer_lock < 0 /\ buffer_lock' = 0

\* The last k elements of a sequence.
LastN(s, k) ==
    SubSeq(s, Len(s) - k + 1, Len(s))

\* C2: a callback that finds L >= frames samples in the buffer writes the
\* first `frames` of them, in order, as the whole output block, removes
\* exactly those from the head and leaves the other L - frames in their
\* order; no callback removes more than `frames` samples.
C2_DrainExactlyFrames ==
    [][CallbackStep =>
          /\ Len(audio_data_buffer) - Len(audio_data_buffer') <= BlockSize
          /\ Len(audio_data_buffer) >= BlockSize =>
                /\ outdata' = SubSeq(audio_data_buffer, 1, BlockSize)
                /\ audio_data_buffer' =
                      SubSeq(audio_data_buffer, BlockSize + 1, Len(audio_data_buffer))
                /\ Len(audio_data_buffer') = Len(audio_data_buffer) - BlockSize
                /\ drained' = drained \o outdata']_vars

\* A whole block of buffered samples has been output and samples remain.
C2_Witness ==
    /\ Len(drained) >= BlockSize
    /\ outdata = LastN(drained, BlockSize)
    /\ audio_data_buffer # <<>>
    /\ buffer_lock = 0

\* C3: a callback that finds k < frames samples in the buffer (k = 0
\* included) writes them first, in order, then frames - k samples of 0, and
\* leaves the buffer empty.
C3_ShortBufferPadded ==
    [][(CallbackStep /\ Len(audio_data_buffer) < BlockSize) =>
          /\ Len(outdata') = BlockSize
          /\ \A i \in 1..BlockSize :
                outdata'[i] = IF i <= Len(audio_data_buffer)
                              THEN audio_data_buffer[i]
                              ELSE 0
          /\ audio_data_buffer' = <<>>
          /\ drained' = drained \o audio_data_buffer]_vars

\* A block made of k >= 1 buffered samples and padding has been output.
C3_Witness ==
    \E k \in 1..(BlockSize - 1) :
        /\ Len(drained) >= k
        /\ outdata = LastN(drained, k) \o [i \in 1..(BlockSize - k) |-> 0]
        /\ \A i \in 1..k : outdata[i] # 0
        /\ audio_data_buffer = <<>>
        /\ buffer_lock = 0

\* A byte string without container header and of odd length.
OddRaw(v) ==
    v.kind = "bytes" /\ ~v.hdr /\ Len(v.data) % 2 = 1

\* C4: when the chunk a worker holds failed the container decode and fails
\* the raw PCM fallback (odd byte length), the chunk is dropped: the buffer
\* stays as it was, no append of it is scheduled, and the worker is back at
\* the head of its loop, alive.
C4_BadChunkDropped ==
    [][\A w \in DOMAIN workers :
          (/\ workers[w].pc = "fallback"
           /\ workers'[w] # workers[w]
           /\ OddRaw(submitted[workers[w].cur].val)) =>
             /\ audio_data_buffer' = audio_data_buffer
             /\ workers'[w] = [pc |-> "loop", cur |-> 0, samples |-> <<>>]
             /\ fate'[workers[w].cur] = "dropped"]_vars

\* A worker dropped an odd-length chunk and then decoded the next one.
C4_Witness ==
    \E i \in DOMAIN fate : \E j \in DOMAIN fate :
        /\ i < j
        /\ OddRaw(submitted[i].val)
        /\ fate[i] = "dropped"
        /\ fate[j] \in {"wav", "pcm"}
        /\ Len(workers) = 1

\* C5: a temporary file exists only while a worker is between creating it
\* and reading it back: once a worker is done with a chunk, decoded or not,
\* the file of that chunk is gone.
C5_TempfileReleased ==
    tempfiles = Cardinality({w \in DOMAIN workers : workers[w].pc = "read"})

\* C6 as stated: a worker never exits while playing is True.
C6_ExitOnlyWhenStopped ==
    [][\A w \in DOMAIN workers :
          (workers[w].pc # "dead" /\ workers'[w].pc = "dead") => ~playing]_vars

\* C6: a worker leaves its loop only on reading playing = False at the head
\* of the loop, or on dequeuing the None sentinel; no other dequeued value
\* and no failure while processing one ends it.
C6_ExitOnlyStoppedOrSentinel ==
    [][\A w \in DOMAIN workers :
          (workers[w].pc # "dead" /\ workers'[w].pc = "dead") =>
             \/ workers[w].pc = "loop" /\ ~playing
             \/ /\ workers[w].pc = "get"
                /\ audio_queue # <<>>
                /\ submitted[Head(audio_queue)].val = NoneValue]_vars

\* A worker went through a chunk that failed both decodes and through an
\* object that is no byte string, and polls the queue with playing True.
C6_Witness ==
    /\ playing
    /\ Len(workers) = 1
    /\ workers[1].pc = "get"
    /\ \E i \in DOMAIN fate : fate[i] = "dropped" /\ submitted[i].val = StrValue
    /\ \E i \in DOMAIN fate : fate[i] = "dropped" /\ OddRaw(submitted[i].val)

\* A step that is a call of start().
StartStep ==
    calls' = calls + 1 /\ lastCall' = "start"

\* C7: after start(), called when playing is False, playing is True, the
\* thread in audio_thread is alive and the stream in audio_stream is started.
C7_StartMakesRunning ==
    [][(StartStep /\ ~playing) =>
          /\ playing'
          /\ audio_thread' # 0
          /\ workers'[audio_thread'].pc # "dead"
          /\ audio_stream' # 0
          /\ streams'[audio_stream'].active]_vars

\* C8: start(), called when playing is True, creates no thread, opens no
\* stream and leaves playing, the queue and the buffer as they were.
C8_StartWhenRunningNoOp ==
    [][(StartStep /\ playing) =>
          UNCHANGED <<workers, streams, playing, audio_queue, audio_data_buffer>>]_vars

\* C9: stop(), called when no stream is open (never started, or stopped and
\* closed already), issues no stop or close on a stream.
C9_StopWhenStoppedNoOp ==
    [][(/\ callerPc = "stop_stream"
        /\ callerPc' # "stop_stream"
        /\ (audio_stream = 0 \/ ~streams[audio_stream].active)) =>
          UNCHANGED streams]_vars

\* The samples a chunk contributes: the container decode when it succeeds,
\* else the raw PCM reading when it succeeds, else none.
DecodedSamples(v) ==
    IF v.kind = "bytes" /\ v.hdr
    THEN Int16From(v.data, 1)
    ELSE IF v.kind = "bytes" /\ Len(v.data) % 2 = 0
    THEN Int16From(v.data, 1)
    ELSE <<>>

\* The decoded samples of the first n submitted chunks, in submission order.
RECURSIVE Expected(_)
Expected(n) ==
    IF n = 0 \/ n > Len(submitted)
    THEN <<>>
    ELSE Expected(n - 1) \o DecodedSamples(submitted[n].val)

IsPrefix(s, t) ==
    Len(s) <= Len(t) /\ SubSeq(t, 1, Len(s)) = s

\* C1: chunks are taken up in admission order (a chunk is taken only when
\* all earlier ones were), what the callbacks have drained is at any time a
\* prefix of the decoded samples of the submitted chunks in submission
\* order, and once the stream is running the callbacks eventually have
\* drained exactly the decoded samples of all the chunks submitted.
C1_FifoPipeline ==
    /\ [](\A i \in DOMAIN fate : \A j \in DOMAIN fate :
             (i < j /\ fate[j] # "queued") => fate[i] # "queued")
    /\ [](IsPrefix(drained, Expected(Len(submitted))))
    /\ playing ~> (drained = Expected(Len(submitted)))

\* Two chunks submitted while running, one through each decode path, have
\* been drained in submission order.
C1_Witness ==
    /\ Len(submitted) = 2
    /\ submitted[1].running /\ submitted[2].running
    /\ fate[1] = "pcm" /\ fate[2] = "wav"
    /\ drained = DecodedSamples(submitted[1].val) \o DecodedSamples(submitted[2].val)
    /\ Len(drained) = 3

\* C10: a chunk submitted while playing was False and still queued when
\* start() was called is eventually dequeued by a worker, unless stop() is
\* called again.
C10_QueuedWhileStoppedProcessed ==
    \A i \in 1..MaxChunks :
        (/\ i \in DOMAIN fate
         /\ ~submitted[i].running
         /\ i \in seenByStart
         /\ lastCall = "start")
        ~> (lastCall = "stop" \/ (i \in DOMAIN fate /\ fate[i] # "queued"))

\* A step in which object i leaves the queue.
Dequeued(i) ==
    fate[i] = "queued" /\ fate'[i] # "queued"

\* C11 as stated: an object submitted while playing was False leaves the
\* queue only after a start() has set playing to True again.
C11_NoDequeueBeforeRestart ==
    [][\A i \in DOMAIN fate :
          (Dequeued(i) /\ ~submitted[i].running) => i \in restarted]_vars

\* With the flag cleared no worker enters queue.get(): a worker that is in
\* queue.get() while playing is False passed its loop test before the flag
\* was cleared.
NoPollAfterClear ==
    \A w \in DOMAIN workers :
        (~playing /\ workers'[w].pc = "get") => workers[w].pc = "get"

\* start() sets the flag again only when no worker is alive, so the flag
\* stays cleared for the rest of the life of a worker that saw it cleared.
NoRestartWhileAlive ==
    (~playing /\ playing') => \A w \in DOMAIN workers : ~IsAlive(w)

\* C11: an object submitted while playing was False leaves the queue before
\* a start() has set playing to True again only in the hands of a worker that
\* passed its loop test before the flag was cleared and is still in that
\* iteration's queue.get(); it is the only object that worker dequeues after
\* the flag was cleared (it does not poll again with the flag cleared, and
\* the flag stays cleared while it lives).  A worker that tests the flag
\* when it is False exits and dequeues nothing.
C11_EarlyDequeueOnlyByPendingGet ==
    [][/\ \A i \in DOMAIN fate :
             (Dequeued(i) /\ ~submitted[i].running /\ i \notin restarted) =>
                /\ ~playing
                /\ \E w \in DOMAIN workers :
                      /\ workers[w].pc = "get"
                      /\ workers'[w].pc \in {"decode", "dead"}
       /\ NoPollAfterClear
       /\ NoRestartWhileAlive
       /\ \A w \in DOMAIN workers :
             (workers[w].pc = "loop" /\ workers'[w].pc # "loop" /\ ~playing) =>
                (workers'[w].pc = "dead" /\ audio_queue' = audio_queue)]_vars

\* After start() and stop() only, a worker holds the second chunk, which was
\* submitted after stop() cleared the flag: it dequeued it with the flag
\* cleared and no start() in between.
C11_Witness ==
    /\ calls = 2
    /\ lastCall = "stop"
    /\ Len(submitted) = 2
    /\ submitted[1].running
    /\ ~submitted[2].running
    /\ \E w \in DOMAIN workers : workers[w].cur = 2

\* ------------------------------------------------------------------ C12
\* A byte string without container header and of even length.
EvenRaw(v) ==
    v.kind = "bytes" /\ ~v.hdr /\ Len(v.data) % 2 = 0

\* The k-th little-endian signed 16-bit integer of the byte sequence d: low
\* byte first, sign taken from the top bit of the high byte.
LittleEndianAt(d, k) ==
    LET lo == d[2 * k - 1]
        hi == d[2 * k]
    IN  IF hi >= 128 THEN lo + 256 * hi - 65536 ELSE lo + 256 * hi

LittleEndianSamples(d) ==
    [k \in 1..(Len(d) \div 2) |-> LittleEndianAt(d, k)]

\* C12: when the container decode of the chunk a worker holds failed and the
\* chunk is bytes of even length, the fallback does not fail: it yields
\* len/2 samples, the little-endian signed 16-bit integers of the bytes in
\* byte order (numerators over 32768, so each sample is in [-1.0, 1.0]), and
\* the following extend appends exactly these at the tail of the buffer.
C12_RawFallbackAppends ==
    [][\A w \in DOMAIN workers :
          LET v == submitted[workers[w].cur].val
          IN  /\ (/\ workers[w].pc = "fallback"
                  /\ workers'[w] # workers[w]
                  /\ EvenRaw(v)) =>
                    /\ workers'[w].pc = "append"
                    /\ workers'[w].cur = workers[w].cur
                    /\ fate'[workers[w].cur] = "pcm"
                    /\ workers'[w].samples = LittleEndianSamples(v.data)
                    /\ Len(workers'[w].samples) * 2 = Len(v.data)
                    /\ \A k \in DOMAIN workers'[w].samples :
                          workers'[w].samples[k] \in -32768..32767
              /\ (/\ workers[w].pc = "extend"
                  /\ workers'[w] # workers[w]
                  /\ fate[workers[w].cur] = "pcm") =>
                    /\ workers[w].samples = LittleEndianSamples(v.data)
                    /\ audio_data_buffer' =
                          audio_data_buffer \o LittleEndianSamples(v.data)]_vars

\* A raw PCM chunk went through the fallback and its sample -1.0 (bytes 00 80)
\* was appended behind samples that were already in the buffer.
C12_Witness ==
    \E i \in DOMAIN fate :
        /\ fate[i] = "pcm"
        /\ EvenRaw(submitted[i].val)
        /\ \A w \in DOMAIN workers : workers[w].cur # i
        /\ Len(audio_data_buffer) >= 2
        /\ audio_data_buffer[Len(audio_data_buffer)] = -32768

\* ------------------------------------------------------------------ C13
\* Whoever holds buffer_lock is at the one step that ends its hold and can
\* take it: a worker at its extend, a callback at its body, which needs no
\* samples to be there.
LockHolderCanRelease ==
    /\ buffer_lock > 0 =>
          /\ buffer_lock \in DOMAIN workers
          /\ workers[buffer_lock].pc = "extend"
          /\ ENABLED worker_extend(buffer_lock)
    /\ buffer_lock < 0 =>
          /\ -buffer_lock \in DOMAIN streams
          /\ ENABLED callback_body(-buffer_lock)

\* The step the holder of buffer_lock takes releases it.
HoldIsOneStep ==
    /\ (buffer_lock > 0 /\ workers'[buffer_lock] # workers[buffer_lock]) =>
          buffer_lock' = 0
    /\ (buffer_lock < 0 /\ buffer_lock' # buffer_lock) =>
          (buffer_lock' = 0 /\ Len(outdata') = BlockSize)

\* C13: the callback never waits for samples (its body can run on any
\* buffer, the empty one included), and buffer_lock, the only thing it waits
\* for, is always released: a holder is at its single append or drain, that
\* step releases the lock, and under fair scheduling a held lock becomes
\* free.
C13_CallbackNeverBlocks ==
    /\ []LockHolderCanRelease
    /\ [][HoldIsOneStep]_vars
    /\ (buffer_lock # 0) ~> (buffer_lock = 0)

\* A callback holds the lock on an empty buffer while a worker with decoded
\* samples waits for the lock.
C13_Witness ==
    /\ buffer_lock < 0
    /\ audio_data_buffer = <<>>
    /\ \E w \in DOMAIN workers :
          workers[w].pc = "append" /\ workers[w].samples # <<>>

\* ------------------------------------------------------------------ C14
\* The stream audio_stream refers to, if any, is stopped and closed.
StreamClosed ==
    audio_stream # 0 =>
        /\ ~streams[audio_stream].active
        /\ streams[audio_stream].stops >= 1
        /\ streams[audio_stream].closes >= 1

\* Where stop() is tells what it has done: the flag is cleared before the
\* stream is touched, and the stream is closed before the join.
StopOrder ==
    /\ callerPc = "stop_stream" => ~playing
    /\ callerPc = "join" => (~playing /\ StreamClosed)

\* The steps of stop() follow each other in the order of lines 36, 37-39,
\* 40-41, and the step that returns leaves the flag cleared and the stream
\* closed.
StopSteps ==
    /\ (callerPc = "idle" /\ callerPc' # "idle") =>
          /\ callerPc' = "stop_stream"
          /\ ~playing'
          /\ streams' = streams
    /\ (callerPc = "stop_stream" /\ callerPc' # "stop_stream") =>
          /\ callerPc' \in {"join", "idle"}
          /\ StreamClosed'
    /\ (callerPc = "join" /\ callerPc' # "join") => callerPc' = "idle"
    /\ (callerPc # "idle" /\ callerPc' = "idle") => (~playing' /\ StreamClosed')

\* C14: stop() clears `playing`, then stops and closes the output stream,
\* then waits for the worker; every stop() returns, and when it returns
\* `playing` is False and the stream is stopped and closed.
C14_StopOrderedAndReturns ==
    /\ []StopOrder
    /\ [][StopSteps]_vars
    /\ (callerPc # "idle") ~> (callerPc = "idle")

\* stop() has returned on a closed stream while the worker, still in the
\* middle of a chunk, has not finished.
C14_Witness ==
    /\ callerPc = "idle"
    /\ lastCall = "stop"
    /\ ~playing
    /\ audio_stream # 0
    /\ StreamClosed
    /\ IsAlive(audio_thread)
    /\ Busy(audio_thread)

\* ------------------------------------------------------------------ C15
\* The samples played so far followed by the buffer are the samples appended
\* so far.
Conservation ==
    drained \o audio_data_buffer = appended

\* The buffer changes only by an append at its tail, which plays nothing, or
\* by a drain at its head, which plays exactly what it removes.
AppendOrDrain ==
    audio_data_buffer' # audio_data_buffer =>
        \/ /\ Len(audio_data_buffer') > Len(audio_data_buffer)
           /\ IsPrefix(audio_data_buffer, audio_data_buffer')
           /\ drained' = drained
        \/ /\ Len(audio_data_buffer') < Len(audio_data_buffer)
           /\ LET k == Len(audio_data_buffer) - Len(audio_data_buffer')
              IN  /\ audio_data_buffer' = LastN(audio_data_buffer, Len(audio_data_buffer'))
                  /\ drained' = drained \o SubSeq(audio_data_buffer, 1, k)
                  /\ SubSeq(outdata', 1, k) = SubSeq(audio_data_buffer, 1, k)

\* C15: in every reachable state the non-padding samples written to the
\* device so far, followed by the buffer, are the concatenation of all the
\* sample sequences appended so far, whatever the interleaving of appends
\* and drains and across stop/start cycles; the buffer changes only by
\* appends at the tail and drains at the head.
C15_SamplesConserved ==
    /\ []Conservation
    /\ [][AppendOrDrain]_vars

\* After a stop/start cycle a second worker has appended behind the first
\* one's samples; part has been played and part is still in the buffer.
C15_Witness ==
    /\ Len(workers) >= 2
    /\ Len(appended) >= 3
    /\ drained # <<>>
    /\ audio_data_buffer # <<>>
    /\ \E i \in DOMAIN fate : \E j \in DOMAIN fate :
          i # j /\ fate[i] \in {"wav", "pcm"} /\ fate[j] \in {"wav", "pcm"}

\* ------------------------------------------------------------------ C16
\* A worker is inside its append exactly when it holds the lock, so two
\* workers, or a worker and a callback, are never inside a buffer access
\* together.
AccessUnderLock ==
    /\ \A w \in DOMAIN workers : (workers[w].pc = "extend") <=> (buffer_lock = w)
    /\ Cardinality({w \in DOMAIN workers : workers[w].pc = "extend"}) <= 1
    /\ buffer_lock < 0 =>
          \A w \in DOMAIN workers : workers[w].pc # "extend"

\* The buffer is changed, and the callback's block is written, only by the
\* thread that holds the lock, in the step that ends its hold; while a
\* callback holds the lock no append reaches the buffer between its length
\* check and its drain.
ChangeByHolder ==
    /\ audio_data_buffer' # audio_data_buffer =>
          /\ buffer_lock # 0
          /\ buffer_lock' = 0
          /\ buffer_lock > 0 =>
                /\ workers[buffer_lock].pc = "extend"
                /\ workers'[buffer_lock].pc = "loop"
                /\ \A w \in DOMAIN workers : w # buffer_lock => workers'[w] = workers[w]
          /\ buffer_lock < 0 => workers' = workers
    /\ (drained' # drained \/ appended' # appended) => (buffer_lock # 0 /\ buffer_lock' = 0)
    /\ (buffer_lock < 0 /\ buffer_lock' = buffer_lock) =>
          audio_data_buffer' = audio_data_buffer

\* C16: every access to the playback buffer (the worker's append on either
\* decode path, the callback's length check and drain) is made holding
\* buffer_lock: worker and callback are never inside an access together, and
\* no append falls between a callback's length check and its drain.
C16_BufferAccessLocked ==
    /\ []AccessUnderLock
    /\ [][ChangeByHolder]_vars

\* A worker is inside its append, holding the lock, on a non-empty buffer
\* while a started stream's callback is kept out.
C16_Witness ==
    \E w \in DOMAIN workers :
        /\ workers[w].pc = "extend"
        /\ buffer_lock = w
        /\ audio_data_buffer # <<>>
        /\ \E s \in DOMAIN streams : streams[s].active /\ ~ENABLED callback_lock(s)

\* ------------------------------------------------------------------ C17
AnyAlive ==
    \E w \in DOMAIN workers : IsAlive(w)

\* With the flag cleared and a worker alive, every worker eventually has
\* left its loop (start() cannot set the flag back while the worker is
\* alive).
WorkerExits ==
    (~playing /\ AnyAlive) ~> ~AnyAlive

\* C17 as stated: the worker eventually exits, and with the flag cleared it
\* only finishes a chunk it had already dequeued, that is, nothing is
\* dequeued while `playing` is False.
C17_OnlyChunkAlreadyDequeued ==
    /\ WorkerExits
    /\ [][\A i \in DOMAIN fate : Dequeued(i) => playing]_vars

\* With the flag cleared a worker takes a chunk only out of a queue.get() it
\* was already in, and at its loop test it exits.
LateChunkFromPendingGet ==
    \A w \in DOMAIN workers :
        /\ (~playing /\ workers'[w].cur # 0 /\ workers'[w].cur # workers[w].cur) =>
              (workers[w].pc = "get" /\ workers'[w].pc = "decode")
        /\ (~playing /\ workers[w].pc = "loop" /\ workers'[w] # workers[w]) =>
              workers'[w].pc = "dead"

\* C17: once stop() has cleared `playing`, the worker eventually exits its
\* loop; after the flag was cleared it finishes at most one chunk, the one
\* it had already dequeued or the one a queue.get() already in progress
\* returns (it enters no further queue.get(), and the flag stays cleared
\* while it lives), and that chunk's samples may still be appended.
C17_WorkerExitsAfterOneChunk ==
    /\ [][LateChunkFromPendingGet /\ NoPollAfterClear /\ NoRestartWhileAlive]_vars
    /\ WorkerExits

\* stop() has returned and the worker is appending the samples of the second
\* chunk, which was submitted, and so dequeued, after the flag was cleared.
C17_Witness ==
    /\ ~playing
    /\ callerPc = "idle"
    /\ calls = 2
    /\ Len(submitted) = 2
    /\ submitted[1].running
    /\ ~submitted[2].running
    /\ \E w \in DOMAIN workers :
          /\ workers[w].pc = "extend"
          /\ workers[w].cur = 2
          /\ workers[w].samples # <<>>

\* ------------------------------------------------------------------ C18
\* C18: at most one decode worker thread is alive at any time, whatever the
\* caller threads do with start(), stop() and add_audio_chunk.
C18_AtMostOneWorkerAlive ==
    Cardinality({w \in DOMAIN workers : IsAlive(w)}) <= 1

\* ------------------------------------------------------------------ C19
OpenStreams ==
    {s \in DOMAIN streams : streams[s].active}

\* C19: at most one output stream is open at any time, and once a stop()
\* that ends a sequence of calls has returned, no stream that start() opened
\* is still open.
C19_NoStreamLeaked ==
    /\ Cardinality(OpenStreams) <= 1
    /\ (lastCall = "stop" /\ callerPc = "idle") => OpenStreams = {}

\* ------------------------------------------------------------------ C20
\* A step of start() or of stop() leaves the chunk queue and the playback
\* buffer as they are.
KeepPending ==
    (calls' # calls \/ callerPc' # callerPc) =>
        /\ audio_queue' = audio_queue
        /\ audio_data_buffer' = audio_data_buffer

\* The queue holds the chunks not yet taken, in submission order, and the
\* samples played or buffered are the first samples of the submitted chunks
\* in submission order.
PendingInOrder ==
    /\ \A k \in 1..(Len(audio_queue) - 1) : audio_queue[k] < audio_queue[k + 1]
    /\ \A k \in DOMAIN audio_queue : fate[audio_queue[k]] = "queued"
    /\ \A i \in DOMAIN fate :
          fate[i] = "queued" => \E k \in DOMAIN audio_queue : audio_queue[k] = i
    /\ IsPrefix(drained \o audio_data_buffer, Expected(Len(submitted)))

\* C20: stop() and start() remove and reorder nothing: their steps leave the
\* chunk queue and the playback buffer unchanged, the restarted worker and
\* stream work on the same queue and buffer, and chunks and samples stay in
\* submission order across stop/start cycles.
C20_StopStartKeepPending ==
    /\ []PendingInOrder
    /\ [][KeepPending]_vars

\* A chunk submitted during the first run has stayed in the queue across
\* stop() and start(): the second worker has taken it, ahead of the chunk
\* submitted after it, which is still queued.
C20_Witness ==
    /\ Len(workers) = 2
    /\ Len(submitted) = 2
    /\ submitted[1].running
    /\ ~submitted[2].running
    /\ workers[2].cur = 1
    /\ audio_queue = <<2>>

====
